---- MODULE Spec2Model ----
(***************************************************************************)
(* confluo / libdialog: the filter expression lexer and parser             *)
(* (dialog/expression.h) and the versioned aggregate store exercised by    *)
(* test/aggregate_test.h.                                                  *)
(*                                                                         *)
(* A predicate string is a sequence of one-character strings.  The lexer   *)
(* reads it through a std::stringstream, whose state (read position and    *)
(* the eofbit / failbit / badbit flags) is modelled explicitly, because    *)
(* next_token, peek_token and put_back depend on what get(), peek() and    *)
(* unget() do at the end of the string.                                    *)
(***************************************************************************)
EXTENDS Integers, Sequences, FiniteSets, TLC

(***************************************************************************)
(* Characters                                                              *)
(***************************************************************************)

\* What std::istream::get() and peek() return at the end of the stream.
EOF == "EOF"

\* The byte 0xFF: `char c = stream_.get()` turns it into (char)-1, which a
\* build with a signed char compares equal to EOF in `switch (c)`.
CharFF == "0xFF"

Letters ==
  {"a","b","c","d","e","f","g","h","i","j","k","l","m","n","o","p","q","r","s",
   "t","u","v","w","x","y","z",
   "A","B","C","D","E","F","G","H","I","J","K","L","M","N","O","P","Q","R","S",
   "T","U","V","W","X","Y","Z"}

Digits == {"0","1","2","3","4","5","6","7","8","9"}

\* iswspace
iswspace(c) == c \in {" ", "\t", "\n"}

\* expression_lexer::opvalid
opvalid(c) == c \in Letters \/ c \in Digits \/ c = "." \/ c = "_" \/ c = "-"

(***************************************************************************)
(* std::stringstream stream_                                               *)
(***************************************************************************)

\* expression_lexer::str(exp): a fresh stream over the string exp
stream_(exp) == [str |-> exp, pos |-> 0, eof |-> FALSE, fail |-> FALSE, bad |-> FALSE]

\* std::ios::good()
good(s) == ~s.eof /\ ~s.fail /\ ~s.bad

\* stream_.get(): the next character, consumed; at the end of the string
\* EOF with eofbit and failbit set; on a stream that is not good, EOF with
\* failbit set and nothing consumed.
stream_get(s) ==
  IF good(s)
    THEN IF s.pos < Len(s.str)
           THEN [c |-> s.str[s.pos + 1], s |-> [s EXCEPT !.pos = @ + 1]]
           ELSE [c |-> EOF, s |-> [s EXCEPT !.eof = TRUE, !.fail = TRUE]]
    ELSE [c |-> EOF, s |-> [s EXCEPT !.fail = TRUE]]

\* stream_.peek(): the next character, not consumed; at the end of the
\* string EOF with eofbit (only) set.
stream_peek(s) ==
  IF good(s)
    THEN IF s.pos < Len(s.str)
           THEN [c |-> s.str[s.pos + 1], s |-> s]
           ELSE [c |-> EOF, s |-> [s EXCEPT !.eof = TRUE]]
    ELSE [c |-> EOF, s |-> [s EXCEPT !.fail = TRUE]]

\* stream_.unget() (C++11): clears eofbit, then steps back one character
\* if the stream is good; with failbit or badbit set it does nothing.
stream_unget(s) ==
  LET s1 == [s EXCEPT !.eof = FALSE]
  IN  IF good(s1)
        THEN IF s1.pos > 0
               THEN [s1 EXCEPT !.pos = @ - 1]
               ELSE [s1 EXCEPT !.bad = TRUE]
        ELSE [s1 EXCEPT !.fail = TRUE]

(***************************************************************************)
(* expression_lexer                                                        *)
(***************************************************************************)

INVALID == -2
END == -1
OR == 0
AND == 1
NOT == 2
LEFT == 3
RIGHT == 4
OPERATOR == 5
OPERAND == 6

\* expression_lex_token(i, val)
expression_lex_token(i, val) == [id |-> i, value |-> val]

\* A call of next_token / peek_token: the token returned (or the message of
\* the parse_exception thrown) and the stream as the call leaves it.
LexReturn(tok, s) == [err |-> "", tok |-> tok, s |-> s]
LexThrow(msg, s) == [err |-> msg, tok |-> expression_lex_token(INVALID, <<>>), s |-> s]

\* while (iswspace(stream_.peek())) stream_.get();
RECURSIVE skip_space(_)
skip_space(s) ==
  LET p == stream_peek(s)
  IN  IF iswspace(p.c) THEN skip_space(stream_get(p.s).s) ELSE p.s

\* while (opvalid(stream_.peek())) operand += (char) stream_.get();
RECURSIVE read_operand(_, _)
read_operand(s, operand) ==
  LET p == stream_peek(s)
  IN  IF opvalid(p.c)
        THEN read_operand(stream_get(p.s).s, Append(operand, p.c))
        ELSE [value |-> operand, s |-> p.s]

\* case '!' of next_token; s is the stream after the '!' was read
lex_bang(s) ==
  LET g1 == stream_get(s)
  IN  IF g1.c = "="
        THEN LexReturn(expression_lex_token(OPERATOR, <<"!", "=">>), g1.s)
        ELSE IF g1.c = "i"
          THEN LET g2 == stream_get(g1.s)
                   p  == stream_peek(g2.s)
               IN  IF g2.c = "n"
                     THEN IF iswspace(p.c)
                            THEN LexReturn(expression_lex_token(OPERATOR, <<"!", "i", "n">>), p.s)
                            ELSE LexReturn(expression_lex_token(NOT, <<"!">>),
                                           stream_unget(stream_unget(p.s)))
                     ELSE LexReturn(expression_lex_token(NOT, <<"!">>),
                                    stream_unget(stream_unget(g2.s)))
          ELSE LexReturn(expression_lex_token(NOT, <<"!">>), stream_unget(g1.s))

\* cases '<' and '>' of next_token; s is the stream after c was read
lex_angle(c, s) ==
  LET g1 == stream_get(s)
  IN  IF g1.c = "="
        THEN LexReturn(expression_lex_token(OPERATOR, <<c, "=">>), g1.s)
        ELSE LexReturn(expression_lex_token(OPERATOR, <<c>>), stream_unget(g1.s))

\* cases '|', '&' and '=' of next_token: the character must come twice
lex_double(c, id, msg, s) ==
  LET g1 == stream_get(s)
  IN  IF g1.c # c
        THEN LexThrow(msg, g1.s)
        ELSE LexReturn(expression_lex_token(id, <<c, c>>), g1.s)

\* next_token, default case: the operand r read
next_token_operand(r) == LexReturn(expression_lex_token(OPERAND, r.value), r.s)

\* next_token: the switch on the character c read; s is the stream after it
next_token_switch(c, s) ==
  CASE c = EOF \/ c = CharFF -> LexReturn(expression_lex_token(END, <<>>), s)
    [] c = "|" -> lex_double("|", OR, "Invalid token starting with |; did you mean ||?", s)
    [] c = "&" -> lex_double("&", AND, "Invalid token starting with &; did you mean &&?", s)
    [] c = "!" -> lex_bang(s)
    [] c = "(" -> LexReturn(expression_lex_token(LEFT, <<"(">>), s)
    [] c = ")" -> LexReturn(expression_lex_token(RIGHT, <<")">>), s)
    [] c = "=" -> lex_double("=", OPERATOR, "Invalid token starting with =; did you mean ==?", s)
    [] c = "<" -> lex_angle("<", s)
    [] c = ">" -> lex_angle(">", s)
    [] OTHER ->
         IF ~opvalid(c)
           THEN LexThrow("All operands must conform to [a-zA-Z0-9_.]+", s)
           ELSE next_token_operand(read_operand(stream_unget(s), <<>>))

\* next_token: the character read after the white space
next_token_char(g) == next_token_switch(g.c, g.s)

\* expression_lexer::next_token
next_token(s0) == next_token_char(stream_get(skip_space(s0)))

\* expression_lexer::put_back: one unget() per character of the token text
RECURSIVE unget_times(_, _)
unget_times(s, n) == IF n = 0 THEN s ELSE unget_times(stream_unget(s), n - 1)

put_back(s, tok) == unget_times(s, Len(tok.value))

\* peek_token: the token r read, then put back
peek_token_back(r) == IF r.err # "" THEN r ELSE LexReturn(r.tok, put_back(r.s, r.tok))

\* expression_lexer::peek_token
peek_token(s) == peek_token_back(next_token(s))

(***************************************************************************)
(* Expression trees                                                        *)
(***************************************************************************)

\* relop_id (relational_ops.h); RelopOther stands for any value of the enum
\* type outside the six comparison operators.
EQ == "EQ"
NEQ == "NEQ"
LT == "LT"
GT == "GT"
LE == "LE"
GE == "GE"
RelopOther == "relop_other"

RelopIds == {EQ, NEQ, LT, GT, LE, GE}

\* relop_utils::str_to_op
str_to_op(op) ==
  CASE op = <<"=", "=">> -> [err |-> "", op |-> EQ]
    [] op = <<"!", "=">> -> [err |-> "", op |-> NEQ]
    [] op = <<"<">>      -> [err |-> "", op |-> LT]
    [] op = <<">">>      -> [err |-> "", op |-> GT]
    [] op = <<"<", "=">> -> [err |-> "", op |-> LE]
    [] op = <<">", "=">> -> [err |-> "", op |-> GE]
    [] OTHER             -> [err |-> "Invalid operator", op |-> RelopOther]

\* predicate_t, conjunction_t, disjunction_t, negation
predicate_t(attr, op, value) == [id |-> "PREDICATE", attr |-> attr, op |-> op, value |-> value]
conjunction_t(l, r) == [id |-> "AND", left |-> l, right |-> r]
disjunction_t(l, r) == [id |-> "OR", left |-> l, right |-> r]
negation(child) == [id |-> "NOT", child |-> child]

(***************************************************************************)
(* expression_parser                                                       *)
(***************************************************************************)

NoTree == [id |-> "none"]

\* A call of a parser method: the tree returned (or the message of the
\* parse_exception thrown, and then no tree) and the lexer's stream after it.
Return(tree, s) == [err |-> "", tree |-> tree, s |-> s]
Throw(msg, s) == [err |-> msg, tree |-> NoTree, s |-> s]

\* negate(const relop_id&) turning each inequality around instead of
\* taking its complement: LT gives GT, LE gives GE
negate_op_mirror(op) ==
  CASE op = EQ  -> [err |-> "", op |-> NEQ]
    [] op = NEQ -> [err |-> "", op |-> EQ]
    [] op = LT  -> [err |-> "", op |-> GT]
    [] op = GT  -> [err |-> "", op |-> LT]
    [] op = LE  -> [err |-> "", op |-> GE]
    [] op = GE  -> [err |-> "", op |-> LE]
    [] OTHER    -> [err |-> "Could not negate: invalid operator", op |-> op]

\* negate(const relop_id&) with a slip in its last case: GE gives LE
negate_op_slip(op) ==
  CASE op = EQ  -> [err |-> "", op |-> NEQ]
    [] op = NEQ -> [err |-> "", op |-> EQ]
    [] op = LT  -> [err |-> "", op |-> GE]
    [] op = GT  -> [err |-> "", op |-> LE]
    [] op = LE  -> [err |-> "", op |-> GT]
    [] op = GE  -> [err |-> "", op |-> LE]
    [] OTHER    -> [err |-> "Could not negate: invalid operator", op |-> op]

\* negate(const relop_id&) returning an operator it does not know unchanged
negate_op_lenient(op) ==
  CASE op = EQ  -> [err |-> "", op |-> NEQ]
    [] op = NEQ -> [err |-> "", op |-> EQ]
    [] op = LT  -> [err |-> "", op |-> GE]
    [] op = GT  -> [err |-> "", op |-> LE]
    [] op = LE  -> [err |-> "", op |-> GT]
    [] op = GE  -> [err |-> "", op |-> LT]
    [] OTHER    -> [err |-> "", op |-> op]

\* expression_parser::negate(const relop_id&)
negate_op(op) ==
  CASE op = EQ  -> [err |-> "", op |-> NEQ]
    [] op = NEQ -> [err |-> "", op |-> EQ]
    [] op = LT  -> [err |-> "", op |-> GE]
    [] op = GT  -> [err |-> "", op |-> LE]
    [] op = LE  -> [err |-> "", op |-> GT]
    [] op = GE  -> [err |-> "", op |-> LT]
    [] OTHER    -> [err |-> "Could not negate: invalid operator", op |-> op]

\* negate(expression_t*) wrapping the tree in a negation node
negate_wrap(e) == [err |-> "", tree |-> negation(e)]

\* negate(expression_t*) keeping the connective of the node it negates
RECURSIVE negate_same(_)
negate_same(e) ==
  CASE e.id = "AND" ->
         LET l == negate_same(e.left)
             r == negate_same(e.right)
         IN  IF l.err # "" THEN l
             ELSE IF r.err # "" THEN r
             ELSE [err |-> "", tree |-> conjunction_t(l.tree, r.tree)]
    [] e.id = "OR" ->
         LET l == negate_same(e.left)
             r == negate_same(e.right)
         IN  IF l.err # "" THEN l
             ELSE IF r.err # "" THEN r
             ELSE [err |-> "", tree |-> disjunction_t(l.tree, r.tree)]
    [] e.id = "NOT" -> [err |-> "", tree |-> e.child]
    [] e.id = "PREDICATE" ->
         LET o == negate_op(e.op)
         IN  IF o.err # "" THEN [err |-> o.err, tree |-> NoTree]
             ELSE [err |-> "", tree |-> [e EXCEPT !.op = o.op]]
    [] OTHER -> [err |-> "", tree |-> NoTree]

\* expression_parser::negate(expression_t*): the negated tree, or the
\* message thrown by negate(const relop_id&)
RECURSIVE negate(_)
negate(e) ==
  CASE e.id = "AND" ->
         LET l == negate(e.left)
             r == negate(e.right)
         IN  IF l.err # "" THEN l
             ELSE IF r.err # "" THEN r
             ELSE [err |-> "", tree |-> disjunction_t(l.tree, r.tree)]
    [] e.id = "OR" ->
         LET l == negate(e.left)
             r == negate(e.right)
         IN  IF l.err # "" THEN l
             ELSE IF r.err # "" THEN r
             ELSE [err |-> "", tree |-> conjunction_t(l.tree, r.tree)]
    [] e.id = "NOT" -> [err |-> "", tree |-> e.child]
    [] e.id = "PREDICATE" ->
         LET o == negate_op(e.op)
         IN  IF o.err # "" THEN [err |-> o.err, tree |-> NoTree]
             ELSE [err |-> "", tree |-> [e EXCEPT !.op = o.op]]
    [] OTHER -> [err |-> "", tree |-> NoTree]

\* factor, OPERAND branch: the second operand read; o is the operator
factor_operand(tok, o, operand) ==
  IF operand.err # "" THEN Throw(operand.err, operand.s)
  ELSE IF operand.tok.id # OPERAND
    THEN Throw("Operand must be followed by operator in all predicates", operand.s)
  ELSE Return(predicate_t(tok.value, o.op, operand.tok.value), operand.s)

\* factor, OPERAND branch, taking any OPERATOR token for a comparison
factor_operator_any(tok, op, o) ==
  IF op.err # "" THEN Throw(op.err, op.s)
  ELSE IF op.tok.id # OPERATOR
    THEN Throw("First operand must be followed by operator in all predicates", op.s)
  ELSE factor_operand(tok, o, next_token(op.s))

\* factor, OPERAND branch: the operator token op read, and o its relop_id
factor_operator(tok, op, o) ==
  IF op.err # "" THEN Throw(op.err, op.s)
  ELSE IF op.tok.id # OPERATOR
    THEN Throw("First operand must be followed by operator in all predicates", op.s)
  ELSE IF o.err # "" THEN Throw(o.err, op.s)
  ELSE factor_operand(tok, o, next_token(op.s))

\* the OPERAND branch of factor; s is the stream after the first operand
factor_predicate_op(tok, op) == factor_operator(tok, op, str_to_op(op.tok.value))

factor_predicate(tok, s) == factor_predicate_op(tok, next_token(s))

RECURSIVE exp(_), term(_), factor(_)

\* exp folding a chain of '||' to the left: ((t1 || t2) || t3)
RECURSIVE exp_fold(_, _)
exp_fold_term(acc, t) ==
  IF t.err # "" THEN t ELSE exp_fold(disjunction_t(acc, t.tree), t.s)

exp_fold_next(acc, nx) ==
  IF nx.err # "" THEN Throw(nx.err, nx.s) ELSE exp_fold_term(acc, term(nx.s))

exp_fold_peek(acc, pk) ==
  IF pk.err # "" THEN Throw(pk.err, pk.s)
  ELSE IF pk.tok.id # OR THEN Return(acc, pk.s)
  ELSE exp_fold_next(acc, next_token(pk.s))

exp_fold(acc, s) == exp_fold_peek(acc, peek_token(s))

\* exp: the right operand e of '||' parsed; return new disjunction(t, e)
exp_disjunction(t, e) ==
  IF e.err # "" THEN e ELSE Return(disjunction_t(t.tree, e.tree), e.s)

\* exp: the '||' taken off the stream by next_token
exp_next(t, nx) ==
  IF nx.err # "" THEN Throw(nx.err, nx.s) ELSE exp_disjunction(t, exp(nx.s))

\* exp: the token after the term peeked
exp_peek(t, pk) ==
  IF pk.err # "" THEN Throw(pk.err, pk.s)
  ELSE IF pk.tok.id # OR THEN Return(t.tree, pk.s)
  ELSE exp_next(t, next_token(pk.s))

\* exp: the term t parsed
exp_term(t) == IF t.err # "" THEN t ELSE exp_peek(t, peek_token(t.s))

\* exp grouping a chain of '||' to the left
exp_left_term(t) == IF t.err # "" THEN t ELSE exp_fold(t.tree, t.s)

exp_left(s) == exp_left_term(term(s))

\* expression_parser::exp
exp(s) == exp_term(term(s))

\* term: the right operand t of '&&' parsed; return new conjunction(f, t)
term_conjunction(f, t) ==
  IF t.err # "" THEN t ELSE Return(conjunction_t(f.tree, t.tree), t.s)

\* term: the '&&' taken off the stream by next_token
term_next(f, nx) ==
  IF nx.err # "" THEN Throw(nx.err, nx.s) ELSE term_conjunction(f, term(nx.s))

\* term: the token after the factor peeked
term_peek(f, pk) ==
  IF pk.err # "" THEN Throw(pk.err, pk.s)
  ELSE IF pk.tok.id # AND THEN Return(f.tree, pk.s)
  ELSE term_next(f, next_token(pk.s))

\* term: the factor f parsed
term_factor(f) == IF f.err # "" THEN f ELSE term_peek(f, peek_token(f.s))

\* expression_parser::term
term(s) == term_factor(factor(s))

\* factor, NOT branch: n is negate(f)
factor_negate(f, n) ==
  IF n.err # "" THEN Throw(n.err, f.s) ELSE Return(n.tree, f.s)

\* factor, NOT branch: the factor f after the '!' parsed
factor_not_factor(f) == IF f.err # "" THEN f ELSE factor_negate(f, negate(f.tree))

\* the NOT branch of factor negating the whole term after the '!'
factor_not_term(s) == factor_not_factor(term(s))

\* the NOT branch of factor; s is the stream after the '!'
factor_not(s) == factor_not_factor(factor(s))

\* factor, LEFT branch: the token after the expression taken without a test
factor_right_unchecked(e, right) ==
  IF right.err # "" THEN Throw(right.err, right.s)
  ELSE Return(e.tree, right.s)

\* factor, LEFT branch: the token after the expression, which must be ')'
factor_right(e, right) ==
  IF right.err # "" THEN Throw(right.err, right.s)
  ELSE IF right.tok.id # RIGHT
    THEN Throw("Could not find matching right parenthesis", right.s)
  ELSE Return(e.tree, right.s)

\* factor, LEFT branch: the expression e inside the parentheses parsed
factor_left_exp(e) == IF e.err # "" THEN e ELSE factor_right(e, next_token(e.s))

\* the LEFT branch of factor; s is the stream after the '('
factor_left(s) == factor_left_exp(exp(s))

\* factor: the first token tok read
factor_token(tok) ==
  IF tok.err # "" THEN Throw(tok.err, tok.s)
  ELSE IF tok.tok.id = NOT THEN factor_not(tok.s)
  ELSE IF tok.tok.id = LEFT THEN factor_left(tok.s)
  ELSE IF tok.tok.id = OPERAND THEN factor_predicate(tok.tok, tok.s)
  ELSE Throw("Unexpected token", tok.s)

\* expression_parser::factor
factor(s) == factor_token(next_token(s))

\* parse: the token n after the expression, which must be END
parse_end(e, n) ==
  IF n.err # "" THEN Throw(n.err, n.s)
  ELSE IF n.tok.id # END THEN Throw("Parsing ended prematurely", n.s)
  ELSE Return(e.tree, n.s)

\* parse: the expression e parsed
parse_exp(e) == IF e.err # "" THEN e ELSE parse_end(e, next_token(e.s))

\* expression_parser::parse, on the parser's lexer stream s
parse(s) == parse_exp(exp(s))

\* expression_parser(exp).parse()
parse_string(str) == parse(stream_(str))

(***************************************************************************)
(* aggregate_list: the versioned aggregate store                           *)
(***************************************************************************)

\* aggregate_id
D_SUM == "D_SUM"
D_MIN == "D_MIN"
D_MAX == "D_MAX"
D_CNT == "D_CNT"
AggregateIds == {D_SUM, D_MIN, D_MAX, D_CNT}

\* limits::int_zero, limits::int_max, limits::int_min of INT_TYPE
int_zero == 0
int_max == 2147483647
int_min == -int_max - 1

\* what a slot may hold before its value is written
Garbage == {7}

\* the identity of an aggregate kind: what get returns before any update
zero(kind) ==
  CASE kind = D_SUM -> int_zero
    [] kind = D_MIN -> int_max
    [] kind = D_MAX -> int_min
    [] kind = D_CNT -> int_zero

\* the combination rule with COUNT adding the value passed to update
agg_count_value(kind, last, value) ==
  CASE kind = D_SUM -> last + value
    [] kind = D_MIN -> IF value < last THEN value ELSE last
    [] kind = D_MAX -> IF value > last THEN value ELSE last
    [] kind = D_CNT -> last + value

\* the combination rule with the MIN and MAX cases running on into the SUM
\* case: the value is added to the minimum or maximum taken
agg_fallthrough(kind, last, value) ==
  CASE kind = D_SUM -> last + value
    [] kind = D_MIN -> (IF value < last THEN value ELSE last) + value
    [] kind = D_MAX -> (IF value > last THEN value ELSE last) + value
    [] kind = D_CNT -> last + 1

\* the combination rule: SUM last + value, MIN min(last, value),
\* MAX max(last, value), COUNT last + 1
agg(kind, last, value) ==
  CASE kind = D_SUM -> last + value
    [] kind = D_MIN -> IF value < last THEN value ELSE last
    [] kind = D_MAX -> IF value > last THEN value ELSE last
    [] kind = D_CNT -> last + 1

\* the entries of the append log that have been published
published(slots, n) == SubSeq(slots, 1, n)

\* binary search taking the entry at the query offset for a later one
RECURSIVE floor_index_strict(_, _, _, _)
floor_index_strict(entries, q, lo, hi) ==
  IF lo >= hi THEN lo
  ELSE LET mid == (lo + hi) \div 2
       IN  IF entries[mid + 1].offset < q
             THEN floor_index_strict(entries, q, mid + 1, hi)
             ELSE floor_index_strict(entries, q, lo, mid)

\* binary search over the append log: the number of entries, among the
\* first hi, whose offset is at most q (they come first: offsets never fall)
RECURSIVE floor_index(_, _, _, _)
floor_index(entries, q, lo, hi) ==
  IF lo >= hi THEN lo
  ELSE LET mid == (lo + hi) \div 2
       IN  IF entries[mid + 1].offset <= q
             THEN floor_index(entries, q, mid + 1, hi)
             ELSE floor_index(entries, q, lo, mid)

\* aggregate_list::get(query_offset) over the entries a reader sees: the
\* value of the entry with the greatest offset <= q, or the identity
get(kind, entries, q) ==
  LET i == floor_index(entries, q, 0, Len(entries))
  IN  IF i = 0 THEN zero(kind) ELSE entries[i].value

\* whether the entry get(q) takes its value from is completely written
get_whole(entries, q) ==
  LET i == floor_index(entries, q, 0, Len(entries))
  IN  IF i = 0 THEN TRUE ELSE entries[i].written

\* a reader taking every slot the writer has touched
reader_extent_all(slots, n) == Len(slots)

\* what a reader takes as the extent of the log: the published size
reader_extent(slots, n) == n

\* aggregate_list::update, first step: new = combine(last or identity, value)
combine(kind, slots, n, value) ==
  agg(kind, IF n = 0 THEN zero(kind) ELSE slots[n].value, value)

\* update writing the value one slot too early
write_value_early(slots, n, new) ==
  IF n = 0 THEN [slots EXCEPT ![1].value = new, ![1].written = TRUE]
  ELSE [slots EXCEPT ![n].value = new, ![n].written = TRUE]

\* update, writing the value of the new entry into the slot after the
\* published ones
write_value(slots, n, new) == [slots EXCEPT ![n + 1].value = new, ![n + 1].written = TRUE]

(***************************************************************************)
(* Predicate strings handed to the parser                                  *)
(***************************************************************************)

MaxLexemes == 3
MaxChain == 3
MaxNodes == 3

\* the text of the six comparison operators
OperatorTexts == {<<"=", "=">>, <<"!", "=">>, <<"<">>, <<"<", "=">>, <<">">>, <<">", "=">>}

\* one-token lexemes
TokenLexemes ==
  OperatorTexts \cup {<<"a">>, <<"5">>, <<"!">>, <<"(">>, <<")">>, <<"&", "&">>, <<"|", "|">>}

\* parts[1] sep parts[2] sep ... parts[n]
RECURSIVE Join(_, _)
Join(parts, sep) ==
  IF Len(parts) = 0 THEN <<>>
  ELSE IF Len(parts) = 1 THEN parts[1]
  ELSE parts[1] \o sep \o Join(Tail(parts), sep)

SeqsUpTo(S, n) == UNION {[1..k -> S] : k \in 0..n}

\* predicates over every operator, and the two used to build larger strings
AllPreds == {<<"x">> \o o \o <<"5">> : o \in OperatorTexts}
GenPreds == {<<"a", "=", "=", "1">>, <<"c", "_", "0", "<", "-", "2", ".", "5">>}

\* The strings of the grammar
\*   expr := term (OR expr)?   term := factor (AND term)?
\*   factor := NOT factor | LEFT expr RIGHT | OPERAND OPERATOR OPERAND
\* with exactly n nodes (predicates, '!', parentheses, '&&', '||').
RECURSIVE FactorsOf(_), TermsOf(_), ExprsOf(_)
FactorsOf(n) ==
  IF n <= 0 THEN {}
  ELSE (IF n = 1 THEN GenPreds ELSE {})
       \cup {<<"!">> \o f : f \in FactorsOf(n - 1)}
       \cup {<<"(">> \o e \o <<")">> : e \in ExprsOf(n - 1)}

TermsOf(n) ==
  IF n <= 0 THEN {}
  ELSE FactorsOf(n)
       \cup UNION {{f \o <<"&", "&">> \o t : f \in FactorsOf(i), t \in TermsOf(n - 1 - i)}
                   : i \in 1..(n - 2)}

ExprsOf(n) ==
  IF n <= 0 THEN {}
  ELSE TermsOf(n)
       \cup UNION {{t \o <<"|", "|">> \o e : t \in TermsOf(i), e \in ExprsOf(n - 1 - i)}
                   : i \in 1..(n - 2)}

Factors == UNION {FactorsOf(n) : n \in 1..MaxNodes}
Terms == UNION {TermsOf(n) : n \in 1..MaxNodes}
Exprs == UNION {ExprsOf(n) : n \in 1..MaxNodes}

\* a few complete expressions, to be followed by trailing tokens
CompleteExprs ==
  {<<"a", "=", "=", "1">>,
   <<"(", "a", "=", "=", "1", ")">>,
   <<"a", "=", "=", "1", "&", "&", "b", "<", "2">>,
   <<"!", "a", "=", "=", "1", "|", "|", "(", "b", "<", "2", ")">>}

TrailLens == {1, 2}

\* what is put before and after a complete expression to leave one '('
\* without its ')'
Unclosers ==
  {<<<<"(">>, <<>>>>,
   <<<<"!", "(">>, <<>>>>,
   <<<<"(", "(">>, <<")">>>>,
   <<<<"(">>, <<" ", "<">>>>,
   <<<<"(">>, <<"!">>>>,
   <<<<"(">>, <<"|", "|", "b", "=", "=", "2">>>>,
   <<<<"a", "=", "=", "1", "&", "&", "(">>, <<>>>>,
   <<<<"a", "=", "=", "1", " ", "|", "|", " ", "!", "(">>, <<" ">>>>}

\* trees given directly to negate(expression_t*)
NegatePreds == {predicate_t(<<"x">>, o, <<"5">>) : o \in RelopIds \cup {RelopOther}}
NegateArgs ==
  NegatePreds
  \cup {conjunction_t(l, r) : l \in NegatePreds, r \in NegatePreds}
  \cup {disjunction_t(l, r) : l \in NegatePreds, r \in NegatePreds}

\* what comes before and after a "!in" in a predicate string
NotInBefore ==
  {<<>>, <<"a", " ">>, <<"a">>, <<"(", "a", " ">>, <<"!", "a", " ">>,
   <<"a", "=", "=", "1", " ">>, <<"a", "=", "=", "1", " ", "&", "&", " ">>,
   <<"a", "=", "=", "1", "|", "|">>, <<"(">>, <<"!">>, <<"a", " ", "=", "=">>}
NotInAfter ==
  {<<" ">>, <<" ", "b">>, <<"\t", "b", ")">>, <<" ", "b", "=", "=", "2">>,
   <<" ", "(", "b", ")">>, <<" ", "b", " ", "&", "&", " ", "c", "<", "3">>,
   <<>>, <<"b">>, <<"(", "b", ")">>, <<"=", "=", "1">>, <<"d", "e", "x", "=", "=", "1">>}

\* How a predicate string was put together, and the string itself.
Gen(fam, op, parts, sep) == [fam |-> fam, op |-> op, parts |-> parts, sep |-> sep]

Text(g) ==
  CASE g.fam = "soup"     -> Join(g.parts, g.sep)
    [] g.fam = "expr"     -> g.parts[1]
    [] g.fam = "chain"    -> Join(g.parts, g.sep \o g.op \o g.sep)
    [] g.fam = "demorgan" -> <<"!", "(">> \o g.parts[1] \o g.sep \o g.op \o g.sep \o g.parts[2] \o <<")">>
    [] g.fam = "dneg"     -> <<"!", "!", "(">> \o g.parts[1] \o <<")">>
    [] g.fam = "trail"    -> g.parts[1] \o g.sep \o Join(Tail(g.parts), g.sep)
    [] g.fam = "unclosed" -> g.parts[1] \o g.parts[2] \o g.parts[3]
    [] g.fam = "lexer"    -> Join(g.parts, <<>>)
    [] g.fam = "prec"     ->
         g.parts[1] \o g.sep \o g.op[1] \o g.sep \o g.parts[2] \o g.sep \o g.op[2] \o g.sep \o g.parts[3]
    [] g.fam = "paren"    ->
         <<"(">> \o g.parts[1] \o g.sep \o g.op[1] \o g.sep \o g.parts[2] \o <<")">>
           \o g.sep \o g.op[2] \o g.sep \o g.parts[3]
    [] g.fam = "notfirst" -> <<"!">> \o g.parts[1] \o g.sep \o g.op \o g.sep \o g.parts[2]
    [] g.fam = "neg"      -> <<"!", "(">> \o g.parts[1] \o <<")">>
    [] g.fam = "notin"    -> g.parts[1] \o <<"!", "i", "n">> \o g.parts[2]
    [] OTHER              -> <<>>

Connectives == {<<"&", "&">>, <<"|", "|">>}
Seps == {<<>>, <<" ">>}

\* gen is one of the ways of putting a predicate string together
IsGen(g) ==
  \/ \E ps \in SeqsUpTo(TokenLexemes, MaxLexemes) : g = Gen("soup", <<>>, ps, <<" ">>)
  \/ \E e \in Exprs \cup AllPreds \cup {<<"!">> \o p : p \in AllPreds} :
       g = Gen("expr", <<>>, <<e>>, <<>>)
  \/ \E c \in Connectives, sep \in Seps, k \in 2..MaxChain :
       \E ps \in [1..k -> AllPreds] : g = Gen("chain", c, ps, sep)
  \/ \E a \in Factors, b \in Terms, sep \in Seps :
       g = Gen("demorgan", <<"&", "&">>, <<a, b>>, sep)
  \/ \E a \in Terms, b \in Exprs, sep \in Seps :
       g = Gen("demorgan", <<"|", "|">>, <<a, b>>, sep)
  \/ \E c \in Connectives, sep \in Seps :
       g = Gen("demorgan", c, <<<<"a", "=", "=", "1">>, <<"b", "=", "=", "2">>>>, sep)
  \/ \E e \in Exprs \cup AllPreds : g = Gen("dneg", <<>>, <<e>>, <<>>)
  \/ \E e \in CompleteExprs, sep \in Seps, k \in TrailLens :
       \E ts \in [1..k -> TokenLexemes] : g = Gen("trail", <<>>, <<e>> \o ts, sep)
  \/ \E u \in Unclosers, e \in Exprs : g = Gen("unclosed", <<>>, <<u[1], e, u[2]>>, <<>>)
  \/ \E b \in NotInBefore, a \in NotInAfter : g = Gen("notin", <<>>, <<b, a>>, <<>>)
  \/ \E c1 \in Connectives, c2 \in Connectives, sep \in Seps :
       \E ps \in [1..3 -> AllPreds] :
         \/ c1 # c2 /\ g = Gen("prec", <<c1, c2>>, ps, sep)
         \/ g = Gen("paren", <<c1, c2>>, ps, sep)
  \/ \E c \in Connectives, sep \in Seps :
       \E ps \in [1..2 -> AllPreds] : g = Gen("notfirst", c, ps, sep)
  \/ \E e \in Exprs \cup AllPreds : g = Gen("neg", <<>>, <<e>>, <<>>)

(***************************************************************************)
(* State                                                                   *)
(***************************************************************************)

MaxUpdates == 3
MaxOffset == 3

Values == {-1, 2}
Offsets == 1..MaxOffset
Queries == 0..(MaxOffset + 1)
Readers == {"r1"}

VARIABLES
  text,    \* the string given to expression_parser(exp)
  gen,     \* how text was put together
  lex_,    \* expression_parser::lex_, the state of its stream
  arg,     \* the tree given to negate(expression_t*)
  out,     \* what the call returned: a tree, or the parse_exception thrown
  kind,    \* aggregate_list: the aggregate kind fixed at construction
  slots,   \* the append log: entries (offset, value), the last one possibly in writing
  size,    \* the number of entries published to readers
  hist,    \* the update(value, offset) calls completed so far
  writer,  \* the writer thread: where it is in update, and its locals
  reader,  \* the reader threads: where each is in get, and its locals
  ref_,    \* a second expression_lexer over text, given the next_token calls only
  calls,   \* the calls made on the lexer so far and what each returned
  snapshot_,  \* schema_snapshot::snapshot_, the columns added
  ret      \* the last call of a schema_snapshot accessor and what it returned

parserVars == <<text, gen, lex_, arg, out>>
storeVars == <<kind, slots, size, hist, writer, reader>>
lexerVars == <<ref_, calls>>
schemaVars == <<snapshot_, ret>>
vars == <<text, gen, lex_, arg, out, kind, slots, size, hist, writer, reader,
          ref_, calls, snapshot_, ret>>

NoCall == [st |-> "none", tree |-> NoTree, err |-> ""]
Outcome(r) ==
  IF r.err = "" THEN [st |-> "tree", tree |-> r.tree, err |-> ""]
  ELSE [st |-> "throw", tree |-> NoTree, err |-> r.err]

WriterIdle == [pc |-> "idle", value |-> 0, offset |-> 0, new |-> 0]
ReaderIdle == [pc |-> "idle", q |-> 0, n |-> 0, n0 |-> 0, n1 |-> 0, res |-> 0, whole |-> TRUE]

\* no parser at work
ParserUnused ==
  /\ gen = Gen("none", <<>>, <<>>, <<>>)
  /\ text = <<>>
  /\ lex_ = stream_(<<>>)
  /\ arg = NoTree
  /\ out = NoCall

\* no lexer used on its own
LexerUnused ==
  /\ ref_ = stream_(<<>>)
  /\ calls = <<>>

NoRet == [fn |-> "none", i |-> 0, val |-> FALSE]

\* schema_snapshot(): no columns
SchemaEmpty ==
  /\ snapshot_ = <<>>
  /\ ret = NoRet

\* aggregate_list(INT_TYPE, kind): no entries
StoreEmpty ==
  /\ slots = <<>>
  /\ size = 0
  /\ hist = <<>>
  /\ writer = WriterIdle
  /\ reader = [r \in Readers |-> ReaderIdle]

InitParse ==
  /\ IsGen(gen)
  /\ text = Text(gen)
  /\ lex_ = stream_(text)
  /\ arg = NoTree
  /\ out = NoCall

InitNegate ==
  /\ gen = Gen("negate", <<>>, <<>>, <<>>)
  /\ text = <<>>
  /\ lex_ = stream_(text)
  /\ arg \in NegateArgs
  /\ out = NoCall

Init ==
  /\ InitParse \/ InitNegate
  /\ kind = D_SUM
  /\ StoreEmpty
  /\ LexerUnused
  /\ SchemaEmpty

\* expression_parser(text).parse()
Parse ==
  /\ gen.fam \notin {"negate", "none"}
  /\ out.st = "none"
  /\ LET r == parse(lex_)
     IN  /\ out' = Outcome(r)
         /\ lex_' = r.s
  /\ UNCHANGED <<text, gen, arg>>
  /\ UNCHANGED <<storeVars, lexerVars, schemaVars>>

\* negate(arg)
Negate ==
  /\ gen.fam = "negate"
  /\ out.st = "none"
  /\ out' = Outcome(negate(arg))
  /\ UNCHANGED <<text, gen, lex_, arg>>
  /\ UNCHANGED <<storeVars, lexerVars, schemaVars>>

Next == Parse \/ Negate

Spec == Init /\ [][Next]_vars

(***************************************************************************)
(* The aggregate store with one writer and concurrent readers              *)
(***************************************************************************)

InitAgg ==
  /\ ParserUnused
  /\ kind \in AggregateIds
  /\ StoreEmpty
  /\ LexerUnused
  /\ SchemaEmpty

\* update(value, offset) begins: the offset is not below the last appended
\* one; the writer combines the last value with the new one
UpdateBegin(value, offset) ==
  /\ writer.pc = "idle"
  /\ size < MaxUpdates
  /\ IF size = 0 THEN TRUE ELSE offset >= slots[size].offset
  /\ writer' = [pc |-> "offset", value |-> value, offset |-> offset,
                new |-> combine(kind, slots, size, value)]
  /\ UNCHANGED <<kind, slots, size, hist, reader>>
  /\ UNCHANGED <<parserVars, lexerVars, schemaVars>>

\* the writer puts the new entry's offset in the slot after the published ones
UpdateWriteOffset ==
  /\ writer.pc = "offset"
  /\ \E g \in Garbage :
       slots' = Append(slots, [offset |-> writer.offset, value |-> g, written |-> FALSE])
  /\ writer' = [writer EXCEPT !.pc = "value"]
  /\ UNCHANGED <<kind, size, hist, reader>>
  /\ UNCHANGED <<parserVars, lexerVars, schemaVars>>

\* the writer puts the new entry's value in that slot
UpdateWriteValue ==
  /\ writer.pc = "value"
  /\ slots' = write_value(slots, size, writer.new)
  /\ writer' = [writer EXCEPT !.pc = "publish"]
  /\ UNCHANGED <<kind, size, hist, reader>>
  /\ UNCHANGED <<parserVars, lexerVars, schemaVars>>

\* the writer publishes the entry; update returns
UpdatePublish ==
  /\ writer.pc = "publish"
  /\ size' = size + 1
  /\ hist' = Append(hist, [value |-> writer.value, offset |-> writer.offset])
  /\ writer' = WriterIdle
  /\ UNCHANGED <<kind, slots, reader>>
  /\ UNCHANGED <<parserVars, lexerVars, schemaVars>>

\* get(q) begins on reader r: it takes the extent of the log
GetBegin(r, q) ==
  /\ reader[r].pc \in {"idle", "done"}
  /\ reader' = [reader EXCEPT ![r] =
                  [pc |-> "search", q |-> q, n |-> reader_extent(slots, size),
                   n0 |-> size, n1 |-> size, res |-> 0, whole |-> TRUE]]
  /\ UNCHANGED <<kind, slots, size, hist, writer>>
  /\ UNCHANGED <<parserVars, lexerVars, schemaVars>>

\* get(q) searches the entries within that extent and returns
GetReturn(r) ==
  /\ reader[r].pc = "search"
  /\ reader' = [reader EXCEPT ![r] =
                  [@ EXCEPT !.pc = "done", !.n1 = size,
                            !.res = get(kind, published(slots, reader[r].n), reader[r].q),
                            !.whole = get_whole(published(slots, reader[r].n), reader[r].q)]]
  /\ UNCHANGED <<kind, slots, size, hist, writer>>
  /\ UNCHANGED <<parserVars, lexerVars, schemaVars>>

NextAgg ==
  \/ \E value \in Values, offset \in Offsets : UpdateBegin(value, offset)
  \/ UpdateWriteOffset
  \/ UpdateWriteValue
  \/ UpdatePublish
  \/ \E r \in Readers, q \in Queries : GetBegin(r, q)
  \/ \E r \in Readers : GetReturn(r)

SpecAgg == InitAgg /\ [][NextAgg]_vars

(***************************************************************************)
(* The lexer used on its own: next_token and peek_token in any order       *)
(***************************************************************************)

MaxPieces == 2
MaxCalls == 4

\* what the strings given to the lexer are put together from
LexPieces ==
  {<<"|">>, <<"&">>, <<"=">>, <<"!">>, <<"<">>, <<">">>, <<"(">>, <<")">>,
   <<"a">>, <<"-">>, <<" ">>, <<"\t">>, <<"#">>, <<CharFF>>,
   <<"!", "i">>, <<"!", "i", "n">>, <<"i", "n", "d", "e", "x">>, <<"=", "=">>}

\* some longer strings
LexWhole ==
  {<<"!", "i", "n", "d", "e", "x", "=", "=", "1">>,
   <<"a", " ", "!", "i", "n", " ", "b">>,
   <<"!", "i", "n", "(", "a", ")">>,
   <<"a", " ", " ", "<", "=", "1">>}

IsLexGen(g) ==
  \/ \E ps \in SeqsUpTo(LexPieces, MaxPieces) : g = Gen("lexer", <<>>, ps, <<>>)
  \/ \E w \in LexWhole : g = Gen("lexer", <<>>, <<w>>, <<>>)

\* expression_lexer(text), twice
InitLex ==
  /\ IsLexGen(gen)
  /\ text = Text(gen)
  /\ lex_ = stream_(text)
  /\ ref_ = stream_(text)
  /\ calls = <<>>
  /\ arg = NoTree
  /\ out = NoCall
  /\ kind = D_SUM
  /\ StoreEmpty
  /\ SchemaEmpty

NoToken == [err |-> "", tok |-> expression_lex_token(INVALID, <<>>)]

\* a call on the lexer: which method, what it returned or threw, where the
\* stream stood before and after, and what the second lexer returned
Call(op, from, r, twin) ==
  [op |-> op, err |-> r.err, tok |-> r.tok, from |-> from, to |-> r.s.pos,
   twin |-> [err |-> twin.err, tok |-> twin.tok]]

\* the lexer is still in use: a parse_exception ends its use
LexerInUse ==
  /\ gen.fam = "lexer"
  /\ Len(calls) < MaxCalls
  /\ IF calls = <<>> THEN TRUE ELSE calls[Len(calls)].err = ""

\* lex_.next_token(), and the same call on the second lexer
NextToken ==
  /\ LexerInUse
  /\ lex_' = next_token(lex_).s
  /\ ref_' = next_token(ref_).s
  /\ calls' = Append(calls, Call("next", lex_.pos, next_token(lex_), next_token(ref_)))
  /\ UNCHANGED <<text, gen, arg, out>>
  /\ UNCHANGED <<storeVars, schemaVars>>

\* lex_.peek_token(); the second lexer is left alone
PeekToken ==
  /\ LexerInUse
  /\ lex_' = peek_token(lex_).s
  /\ calls' = Append(calls, Call("peek", lex_.pos, peek_token(lex_), NoToken))
  /\ UNCHANGED <<text, gen, arg, out, ref_>>
  /\ UNCHANGED <<storeVars, schemaVars>>

NextLex == NextToken \/ PeekToken

SpecLex == InitLex /\ [][NextLex]_vars

(***************************************************************************)
(* schema_snapshot: columns added, then read through the accessors         *)
(***************************************************************************)

MaxColumns == 2
MaxIndexId == 2
MaxBucketSize == 2

\* column_snapshot: the metadata of a column
ColumnSnapshots ==
  [indexed : BOOLEAN, index_id : 0..MaxIndexId, index_bucket_size : 0..MaxBucketSize]

\* the conversion of a number to bool in a return statement of a function
\* returning bool: zero is false, anything else true
to_bool(x) == x # 0

\* schema_snapshot::is_indexed, index_id, index_bucket_size; i counts from 0
is_indexed(snap, i) == snap[i + 1].indexed
index_id(snap, i) == to_bool(snap[i + 1].index_id)
index_bucket_size(snap, i) == to_bool(snap[i + 1].index_bucket_size)

\* schema_snapshot::num_columns
num_columns(snap) == Len(snap)

InitSchema ==
  /\ ParserUnused
  /\ LexerUnused
  /\ kind = D_SUM
  /\ StoreEmpty
  /\ SchemaEmpty

\* schema_snapshot::add_column(snap)
AddColumn(snap) ==
  /\ Len(snapshot_) < MaxColumns
  /\ snapshot_' = Append(snapshot_, snap)
  /\ UNCHANGED ret
  /\ UNCHANGED <<parserVars, lexerVars, storeVars>>

IsIndexed(i) ==
  /\ i < num_columns(snapshot_)
  /\ ret' = [fn |-> "is_indexed", i |-> i, val |-> is_indexed(snapshot_, i)]
  /\ UNCHANGED snapshot_
  /\ UNCHANGED <<parserVars, lexerVars, storeVars>>

IndexId(i) ==
  /\ i < num_columns(snapshot_)
  /\ ret' = [fn |-> "index_id", i |-> i, val |-> index_id(snapshot_, i)]
  /\ UNCHANGED snapshot_
  /\ UNCHANGED <<parserVars, lexerVars, storeVars>>

IndexBucketSize(i) ==
  /\ i < num_columns(snapshot_)
  /\ ret' = [fn |-> "index_bucket_size", i |-> i, val |-> index_bucket_size(snapshot_, i)]
  /\ UNCHANGED snapshot_
  /\ UNCHANGED <<parserVars, lexerVars, storeVars>>

NextSchema ==
  \/ \E snap \in ColumnSnapshots : AddColumn(snap)
  \/ \E i \in 0..(MaxColumns - 1) : IsIndexed(i)
  \/ \E i \in 0..(MaxColumns - 1) : IndexId(i)
  \/ \E i \in 0..(MaxColumns - 1) : IndexBucketSize(i)

SpecSchema == InitSchema /\ [][NextSchema]_vars

(***************************************************************************)
(* Properties of the aggregate store                                       *)
(***************************************************************************)

Log == published(slots, size)

StrictlyIncreasing(h) == \A i \in 1..(Len(h) - 1) : h[i].offset < h[i + 1].offset

\* the cumulative combination of the first i updates of h
RECURSIVE Cumulative(_, _, _)
Cumulative(k, h, i) ==
  IF i = 0
    THEN CASE k = D_SUM -> 0 [] k = D_CNT -> 0 [] k = D_MIN -> int_max [] k = D_MAX -> int_min
    ELSE LET before == Cumulative(k, h, i - 1)
             v == h[i].value
         IN  CASE k = D_SUM -> before + v
               [] k = D_CNT -> before + 1
               [] k = D_MIN -> IF v < before THEN v ELSE before
               [] k = D_MAX -> IF v > before THEN v ELSE before

\* the largest index i with o_i <= q, 0 if there is none
FloorOf(h, q) ==
  LET at == {i \in 1..Len(h) : h[i].offset <= q}
  IN  IF at = {} THEN 0 ELSE CHOOSE i \in at : \A j \in at : j <= i

\* C1: after updates at strictly increasing offsets o_1 < ... < o_n, get(q) is
\* the kind's identity when n = 0 or q < o_1, and otherwise the cumulative
\* combination of updates 1..i for the largest i with o_i <= q.
C1_FloorLookup ==
  StrictlyIncreasing(hist) =>
    \A q \in Queries : get(kind, Log, q) = Cumulative(kind, hist, FloorOf(hist, q))

C1_Witness ==
  /\ kind = D_MIN
  /\ hist = <<[value |-> 2, offset |-> 1], [value |-> -1, offset |-> 3]>>
  /\ writer.pc = "idle"
  /\ get(kind, Log, 0) = int_max
  /\ get(kind, Log, 2) = 2
  /\ get(kind, Log, 4) = -1

C3_AppendOnly ==
  [][/\ size' >= size
     /\ published(slots', size) = published(slots, size)
     /\ size > 0 => size' > 0
     /\ size' > size =>
          \A q \in Queries :
            q < slots'[size'].offset =>
              get(kind, published(slots', size'), q) = get(kind, published(slots, size), q)]_vars

C3_Witness ==
  /\ size = 2
  /\ writer.pc = "idle"
  /\ slots[1].offset = 1 /\ slots[2].offset = 3
  /\ kind = D_SUM
  /\ slots[1].value = 2
  /\ get(kind, Log, 2) = 2
  /\ get(kind, Log, 3) = 4

\* C13: in a COUNT store the i-th entry holds i whatever values were passed
\* to update: each update raises the count by exactly one, and after n
\* updates get(o_n) is n.
C13_CountIgnoresValue ==
  kind = D_CNT =>
    /\ \A i \in 1..size : Log[i].value = i
    /\ size > 0 => get(kind, Log, Log[size].offset) = size

C13_Witness ==
  /\ kind = D_CNT
  /\ hist = <<[value |-> 2, offset |-> 1], [value |-> -1, offset |-> 2],
              [value |-> 2, offset |-> 3]>>
  /\ size = 3
  /\ get(kind, Log, 3) = 3
  /\ get(kind, Log, 2) = 2

\* C14: in a MIN or MAX store, when the last two updates passed the same
\* value v at offsets o < o', the second one left the cumulative value as it
\* was: get(o') equals get(o).
C14_MinMaxIdempotent ==
  (/\ kind \in {D_MIN, D_MAX}
   /\ size >= 2
   /\ hist[size].value = hist[size - 1].value
   /\ hist[size - 1].offset < hist[size].offset) =>
    /\ Log[size].value = Log[size - 1].value
    /\ get(kind, Log, hist[size].offset) = get(kind, Log, hist[size - 1].offset)

C14_Witness ==
  /\ kind = D_MAX
  /\ size = 3
  /\ hist = <<[value |-> 2, offset |-> 1], [value |-> -1, offset |-> 2],
              [value |-> -1, offset |-> 3]>>
  /\ get(kind, Log, 3) = 2
  /\ get(kind, Log, 2) = 2

\* C15: the published entries are strictly increasing in offset: no two of
\* them carry the same offset.
C15_StrictlyIncreasingEntries == StrictlyIncreasing(Log)

(***************************************************************************)
(* Properties of the lexer                                                 *)
(***************************************************************************)

\* [A-Za-z0-9_.-]
WordChars == Letters \cup Digits \cup {"_", ".", "-"}

WhiteSpace == {" ", "\t", "\n"}

\* the character of str at index i, EOF past the end
CharAt(str, i) == IF i >= 1 /\ i <= Len(str) THEN str[i] ELSE EOF

\* the index of the first character after position from that is not white
\* space, Len(str) + 1 if there is none
RECURSIVE FirstBlack(_, _)
FirstBlack(str, from) ==
  IF from >= Len(str) THEN Len(str) + 1
  ELSE IF str[from + 1] \in WhiteSpace THEN FirstBlack(str, from + 1)
  ELSE from + 1

\* the character at index i of str starts no token: a '|', '&' or '=' that
\* does not come twice, or a character that neither is one of | & ! ( ) = < >
\* nor is in [A-Za-z0-9_.-]
StartsNoToken(str, i) ==
  /\ i <= Len(str)
  /\ \/ str[i] \in {"|", "&", "="} /\ CharAt(str, i + 1) # str[i]
     \/ str[i] \notin {"|", "&", "!", "(", ")", "=", "<", ">"} \cup WordChars

\* C11: a next_token call that finds, after the white space, a character
\* that starts no token raises a lexical error; it returns no token and does
\* not take the character for the end of the input.
C11_LexicalErrors ==
  \A k \in 1..Len(calls) :
    (calls[k].op = "next" /\ StartsNoToken(text, FirstBlack(text, calls[k].from))) =>
      calls[k].err # ""

\* what the claim has next_token return for a '!' at index i of str
BangToken(str, i) ==
  IF CharAt(str, i + 1) = "="
    THEN expression_lex_token(OPERATOR, <<"!", "=">>)
  ELSE IF /\ CharAt(str, i + 1) = "i"
          /\ CharAt(str, i + 2) = "n"
          /\ CharAt(str, i + 3) \notin WordChars
    THEN expression_lex_token(OPERATOR, <<"!", "i", "n">>)
  ELSE expression_lex_token(NOT, <<"!">>)

\* C16: a next_token call that finds a '!' after the white space returns
\* OPERATOR "!=" when '=' follows, OPERATOR "!in" when "in" and then a
\* character outside [A-Za-z0-9_.-] or the end of the input follow, and
\* otherwise NOT, leaving the stream right after the '!'.
C16_BangLexing ==
  \A k \in 1..Len(calls) :
    (/\ calls[k].op = "next"
     /\ CharAt(text, FirstBlack(text, calls[k].from)) = "!") =>
      /\ calls[k].err = ""
      /\ calls[k].tok = BangToken(text, FirstBlack(text, calls[k].from))
      /\ calls[k].tok.id = NOT => calls[k].to = FirstBlack(text, calls[k].from)

\* C19: peek_token does not advance the lexer: the next_token call right
\* after a peek_token that returned a token returns that same token, and
\* every next_token call returns what it returns on a lexer of the same
\* string on which peek_token was never called.
C19_PeekDoesNotAdvance ==
  \A k \in 1..Len(calls) :
    calls[k].op = "next" =>
      /\ calls[k].err = calls[k].twin.err
      /\ calls[k].tok = calls[k].twin.tok
      /\ (k > 1 /\ calls[k - 1].op = "peek") =>
           (calls[k].err = "" /\ calls[k].tok = calls[k - 1].tok)

(***************************************************************************)
(* Properties of the parser                                                *)
(***************************************************************************)

Parsed == gen.fam # "negate" /\ out.st # "none"

\* trees as the properties write them
PredNode(attr, op, value) == [id |-> "PREDICATE", attr |-> attr, op |-> op, value |-> value]
AndNode(l, r) == [id |-> "AND", left |-> l, right |-> r]
OrNode(l, r) == [id |-> "OR", left |-> l, right |-> r]

RECURSIVE OnlyAndOrPredicate(_)
OnlyAndOrPredicate(t) ==
  CASE t.id = "PREDICATE" -> TRUE
    [] t.id \in {"AND", "OR"} -> OnlyAndOrPredicate(t.left) /\ OnlyAndOrPredicate(t.right)
    [] OTHER -> FALSE

CountOf(c, str) == Cardinality({i \in DOMAIN str : str[i] = c})

\* C4: whenever parse returns a tree, the tree has only AND, OR and
\* PREDICATE nodes; no NOT node at any depth, however many '!' the string has.
C4_NoNotInParsedTree ==
  (Parsed /\ out.st = "tree") => OnlyAndOrPredicate(out.tree)

C4_Witness ==
  /\ Parsed /\ out.st = "tree"
  /\ CountOf("!", text) >= 3
  /\ out.tree.id \in {"AND", "OR"}
  /\ OnlyAndOrPredicate(out.tree)

\* N(X): the tree obtained by parsing "!(X)"
NegParse(x) == parse_string(<<"!", "(">> \o x \o <<")">>)

DeMorganLhs == <<"!", "(", "a", "=", "=", "1", " ", "&", "&", " ", "b", "=", "=", "2", ")">>
DeMorganRhs == <<"a", "!", "=", "1", " ", "|", "|", " ", "b", "!", "=", "2">>

\* C5: parsing "!(A && B)" gives OR(N(A), N(B)) and parsing "!(A || B)"
\* gives AND(N(A), N(B)), children in order, for A and B the operands of the
\* connective (under '&&' A is a factor and B a term, under '||' A is a term
\* and B an expression); "!(a==1 && b==2)" parses to the tree of
\* "a!=1 || b!=2".
C5_DeMorgan ==
  (gen.fam = "demorgan" /\ Parsed) =>
    LET na == NegParse(gen.parts[1])
        nb == NegParse(gen.parts[2])
    IN  /\ na.err = "" /\ nb.err = ""
        /\ out.st = "tree"
        /\ out.tree = IF gen.op = <<"&", "&">> THEN OrNode(na.tree, nb.tree)
                                                ELSE AndNode(na.tree, nb.tree)
        /\ text = DeMorganLhs =>
             /\ out.tree = parse_string(DeMorganRhs).tree
             /\ out.tree = OrNode(PredNode(<<"a">>, NEQ, <<"1">>), PredNode(<<"b">>, NEQ, <<"2">>))

C5_Witness ==
  /\ gen.fam = "demorgan" /\ Parsed
  /\ gen.op = <<"&", "&">>
  /\ gen.parts[1] = <<"!", "a", "=", "=", "1">>
  /\ gen.parts[2] = <<"a", "=", "=", "1", "&", "&", "c", "_", "0", "<", "-", "2", ".", "5">>
  /\ out.tree = OrNode(PredNode(<<"a">>, EQ, <<"1">>),
                       OrNode(PredNode(<<"a">>, NEQ, <<"1">>),
                              PredNode(<<"c", "_", "0">>, GE, <<"-", "2", ".", "5">>)))

\* C6: parsing "!!(E)" gives exactly the tree of parsing "E", for every
\* expression E; and negating twice a tree of AND, OR and PREDICATE nodes
\* over the six operators gives the tree back.
C6_DoubleNegation ==
  /\ (gen.fam = "dneg" /\ Parsed) =>
       LET e == parse_string(gen.parts[1])
       IN  e.err = "" /\ out.st = "tree" /\ out.tree = e.tree
  /\ (gen.fam = "negate" /\ out.st = "tree") =>
       LET back == negate(out.tree)
       IN  back.err = "" /\ back.tree = arg

C6_Witness ==
  /\ gen.fam = "dneg" /\ Parsed
  /\ gen.parts[1] = <<"a", "=", "=", "1", "|", "|", "c", "_", "0", "<", "-", "2", ".", "5">>
  /\ out.tree = OrNode(PredNode(<<"a">>, EQ, <<"1">>),
                       PredNode(<<"c", "_", "0">>, LT, <<"-", "2", ".", "5">>))

\* the right-nested chain of the trees ts under the connective id
RECURSIVE RightNested(_, _)
RightNested(id, ts) ==
  IF Len(ts) = 1 THEN ts[1]
  ELSE [id |-> id, left |-> ts[1], right |-> RightNested(id, Tail(ts))]

\* C7: "p1 || ... || pk" parses to OR(p1, OR(p2, ... OR(p(k-1), pk))) and
\* "p1 && ... && pk" to AND(p1, AND(p2, ... AND(p(k-1), pk))), k >= 2.
C7_RightAssociative ==
  (gen.fam = "chain" /\ Parsed) =>
    /\ out.st = "tree"
    /\ out.tree = RightNested(IF gen.op = <<"|", "|">> THEN "OR" ELSE "AND",
                              [i \in DOMAIN gen.parts |-> parse_string(gen.parts[i]).tree])

C7_Witness ==
  /\ gen.fam = "chain" /\ Parsed
  /\ gen.op = <<"|", "|">>
  /\ Len(gen.parts) = 3
  /\ out.tree.id = "OR" /\ out.tree.left.id = "PREDICATE"
  /\ out.tree.right.id = "OR" /\ out.tree.right.right.id = "PREDICATE"
  /\ out.tree.left.op = LT /\ out.tree.right.left.op = EQ /\ out.tree.right.right.op = GE

\* the negation of the six operators: EQ<->NEQ, LT<->GE, GT<->LE
NegationTable == (EQ :> NEQ) @@ (NEQ :> EQ) @@ (LT :> GE) @@ (GE :> LT) @@ (GT :> LE) @@ (LE :> GT)

\* C8: negating a predicate replaces its operator by the table, keeping the
\* attribute and the literal ("!x<=5" gives x > 5); negate on an operator
\* outside the six throws "Could not negate" and returns no predicate.
C8_NegatePredicate ==
  /\ (gen.fam = "expr" /\ Parsed /\ Head(text) = "!" /\ Tail(text) \in AllPreds) =>
       LET p == parse_string(Tail(text)).tree
       IN  /\ out.st = "tree"
           /\ out.tree = PredNode(p.attr, NegationTable[p.op], p.value)
           /\ Tail(text) = <<"x", "<", "=", "5">> => out.tree = PredNode(<<"x">>, GT, <<"5">>)
  /\ (gen.fam = "negate" /\ out.st # "none" /\ arg.id = "PREDICATE") =>
       IF arg.op \in RelopIds
         THEN out.st = "tree" /\ out.tree = PredNode(arg.attr, NegationTable[arg.op], arg.value)
         ELSE out.st = "throw" /\ out.err = "Could not negate: invalid operator"
              /\ out.tree = NoTree

C8_Witness ==
  /\ gen.fam = "expr" /\ Parsed
  /\ text = <<"!", "x", "<", "=", "5">>
  /\ out.tree = PredNode(<<"x">>, GT, <<"5">>)

\* a trailing token that does not run into the last operand of the expression
TrailingApart ==
  \/ gen.sep = <<" ">>
  \/ ~opvalid(gen.parts[1][Len(gen.parts[1])])
  \/ ~opvalid(gen.parts[2][1])

\* C9: a complete expression followed by at least one further token is a
\* parse error: parse throws and returns no tree.
C9_TrailingTokenRejected ==
  (gen.fam = "trail" /\ TrailingApart /\ Parsed) => out.st = "throw"

\* the kind of a one-token lexeme, by the lexing rules
KindOf(lx) ==
  CASE lx \in OperatorTexts -> OPERATOR
    [] lx = <<"!">> -> NOT
    [] lx = <<"(">> -> LEFT
    [] lx = <<")">> -> RIGHT
    [] lx = <<"&", "&">> -> AND
    [] lx = <<"|", "|">> -> OR
    [] OTHER -> OPERAND

\* the number of '(' of the tokens ps still open at the end
RECURSIVE OpenLefts(_, _)
OpenLefts(ps, open) ==
  IF Len(ps) = 0 THEN open
  ELSE OpenLefts(Tail(ps),
                 IF KindOf(ps[1]) = LEFT THEN open + 1
                 ELSE IF KindOf(ps[1]) = RIGHT /\ open > 0 THEN open - 1
                 ELSE open)

\* the grammar wants a factor at token i: at the start, after a connective,
\* and after a '!' or '(' that itself stands where a factor is wanted
RECURSIVE FactorWanted(_, _)
FactorWanted(ps, i) ==
  \/ i = 1
  \/ i > 1 /\ KindOf(ps[i - 1]) \in {OR, AND}
  \/ i > 1 /\ KindOf(ps[i - 1]) \in {NOT, LEFT} /\ FactorWanted(ps, i - 1)

\* no factor starts at token i
NoFactorAt(ps, i) ==
  \/ i > Len(ps)
  \/ KindOf(ps[i]) \notin {NOT, LEFT, OPERAND}
  \/ /\ KindOf(ps[i]) = OPERAND
     /\ ~(i + 2 <= Len(ps) /\ KindOf(ps[i + 1]) = OPERATOR /\ KindOf(ps[i + 2]) = OPERAND)

BadFactor(ps) == \E i \in 1..(Len(ps) + 1) : FactorWanted(ps, i) /\ NoFactorAt(ps, i)

\* C10: an input with a '(' that no ')' matches, or with something that is
\* no factor where the grammar wants one, ends in a parse error and no tree.
C10_FailingParseNoTree ==
  /\ (gen.fam = "unclosed" /\ Parsed) => (out.st = "throw" /\ out.tree = NoTree)
  /\ (gen.fam = "soup" /\ Parsed /\ (OpenLefts(gen.parts, 0) > 0 \/ BadFactor(gen.parts))) =>
       (out.st = "throw" /\ out.tree = NoTree)

C10_Witness ==
  /\ gen.fam = "unclosed" /\ Parsed
  /\ text = <<"(", "(", "a", "=", "=", "1", "|", "|", "c", "_", "0", "<", "-", "2", ".", "5", ")">>
  /\ out.st = "throw"
  /\ out.err = "Could not find matching right parenthesis"

\* the lexer, reading str from stream s, comes to the OPERATOR token "!in"
\* within n tokens, before the end of the input and before any lexical error
RECURSIVE NotInAhead(_, _)
NotInFound(r, n) ==
  /\ r.err = ""
  /\ r.tok.id # END
  /\ \/ r.tok = expression_lex_token(OPERATOR, <<"!", "i", "n">>)
     \/ NotInAhead(r.s, n - 1)

NotInAhead(s, n) == n > 0 /\ NotInFound(next_token(s), n)

LexesNotIn(str) == NotInAhead(stream_(str), Len(str) + 1)

\* the comparison operators of the predicates of tree t
RECURSIVE OpsOf(_)
OpsOf(t) ==
  CASE t.id = "PREDICATE" -> {t.op}
    [] t.id \in {"AND", "OR"} -> OpsOf(t.left) \cup OpsOf(t.right)
    [] t.id = "NOT" -> OpsOf(t.child)
    [] OTHER -> {}

AsNumber(b) == IF b THEN 1 ELSE 0

\* C17: each accessor returns the metadata the column was added with:
\* index_id(i) the index id, index_bucket_size(i) the bucket size, whatever
\* their values, and is_indexed(i) the indexed flag. (A column added is not
\* touched again, so ret was taken from the column as it still is.)
C17_AccessorsReturnMetadata ==
  /\ ret.fn = "is_indexed" => ret.val = snapshot_[ret.i + 1].indexed
  /\ ret.fn = "index_id" => AsNumber(ret.val) = snapshot_[ret.i + 1].index_id
  /\ ret.fn = "index_bucket_size" =>
       AsNumber(ret.val) = snapshot_[ret.i + 1].index_bucket_size

(***************************************************************************)
(* Precedence and the meaning of negation                                  *)
(***************************************************************************)

\* the node of a connective over the trees l and r
Connect(c, l, r) == IF c = <<"&", "&">> THEN AndNode(l, r) ELSE OrNode(l, r)

\* the tree of the predicate string p, and its negation by the table
PredTree(p) == parse_string(p).tree
NegPred(p) == PredNode(PredTree(p).attr, NegationTable[PredTree(p).op], PredTree(p).value)

\* C18: "a || b && c" parses to OR(a, AND(b, c)) and "a && b || c" to
\* OR(AND(a, b), c); parentheses override this: "(a c1 b) c2 c" has the
\* connective c2 at the root over the tree of c1; and "!a && b" parses to
\* AND(N(a), b), "!a || b" to OR(N(a), b): the '!' negates only the factor
\* that follows it.
C18_Precedence ==
  /\ (gen.fam = "prec" /\ Parsed) =>
       /\ out.st = "tree"
       /\ out.tree =
            IF gen.op[1] = <<"|", "|">>
              THEN OrNode(PredTree(gen.parts[1]),
                          AndNode(PredTree(gen.parts[2]), PredTree(gen.parts[3])))
              ELSE OrNode(AndNode(PredTree(gen.parts[1]), PredTree(gen.parts[2])),
                          PredTree(gen.parts[3]))
  /\ (gen.fam = "paren" /\ Parsed) =>
       /\ out.st = "tree"
       /\ out.tree = Connect(gen.op[2],
                             Connect(gen.op[1], PredTree(gen.parts[1]), PredTree(gen.parts[2])),
                             PredTree(gen.parts[3]))
  /\ (gen.fam = "notfirst" /\ Parsed) =>
       /\ out.st = "tree"
       /\ out.tree = Connect(gen.op, NegPred(gen.parts[1]), PredTree(gen.parts[2]))

C18_Witness ==
  /\ Parsed
  /\ text = <<"!", "x", "<", "5", " ", "&", "&", " ", "x", "=", "=", "5">>
  /\ out.tree = AndNode(PredNode(<<"x">>, GE, <<"5">>), PredNode(<<"x">>, EQ, <<"5">>))

\* the literals of the predicate strings as numbers, in tenths
LitNum(value) ==
  CASE value = <<"1">> -> 10
    [] value = <<"2">> -> 20
    [] value = <<"5">> -> 50
    [] value = <<"-", "2", ".", "5">> -> -25

\* values of the attributes: for each attribute one value below, one equal
\* to and one above the literal it is compared with
Assignments ==
  {(<<"a">> :> va) @@ (<<"c", "_", "0">> :> vc) @@ (<<"x">> :> vx) :
     va \in {9, 10, 11}, vc \in {-26, -25, -24}, vx \in {49, 50, 51}}

\* a comparison over the integers
Compare(l, op, r) ==
  CASE op = EQ  -> l = r
    [] op = NEQ -> l # r
    [] op = LT  -> l < r
    [] op = GT  -> l > r
    [] op = LE  -> l <= r
    [] op = GE  -> l >= r

\* the value of tree t on a record with the attribute values v
RECURSIVE Eval(_, _)
Eval(t, v) ==
  CASE t.id = "PREDICATE" -> Compare(v[t.attr], t.op, LitNum(t.value))
    [] t.id = "AND" -> Eval(t.left, v) /\ Eval(t.right, v)
    [] t.id = "OR"  -> Eval(t.left, v) \/ Eval(t.right, v)
    [] t.id = "NOT" -> ~Eval(t.child, v)

\* t is true on exactly the records on which u is false
Complement(t, u) == \A v \in Assignments : Eval(t, v) = ~Eval(u, v)

\* C20: for every expression E, "!(E)" parses to a tree that is true on
\* exactly the records on which the tree of "E" is false, whatever the
\* values of the attributes; and negate applied to a tree over the six
\* operators returns such a tree.
C20_NegationPreservesMeaning ==
  /\ (gen.fam = "neg" /\ Parsed) =>
       /\ out.st = "tree"
       /\ parse_string(gen.parts[1]).err = ""
       /\ Complement(out.tree, parse_string(gen.parts[1]).tree)
  /\ (gen.fam = "negate" /\ out.st = "tree") => Complement(out.tree, arg)

C20_Witness ==
  /\ gen.fam = "neg" /\ Parsed
  /\ gen.parts[1] = <<"a", "=", "=", "1", "&", "&", "c", "_", "0", "<", "-", "2", ".", "5">>
  /\ out.tree = OrNode(PredNode(<<"a">>, NEQ, <<"1">>),
                       PredNode(<<"c", "_", "0">>, GE, <<"-", "2", ".", "5">>))
  /\ \E v \in Assignments : Eval(out.tree, v)
  /\ \E v \in Assignments : ~Eval(out.tree, v)

====
